---- MODULE Spec2Model ----
(***************************************************************************)
(* Model of the Excel comparison engine (compare_excel.py): the primary    *)
(* key validator, the keyed diff (compare_excels and its shaping by        *)
(* get_comparison_for_frontend) and the positional diff                    *)
(* (compare_excels_by_position / get_comparison_for_frontend_by_position), *)
(* and of the entry points that call them: main, and the views             *)
(* /api/compare, /api/export-excel and /api/export-cell-level-excel of     *)
(* app.py, with the temporary workbook file an export creates.             *)
(*                                                                         *)
(* A DataFrame is [columns |-> sequence of column names,                   *)
(*                 rows    |-> sequence of rows, a row being the sequence  *)
(*                             of its cells in column order].              *)
(* A cell is a string, or NA (pd.NA).  Column names are sequences of       *)
(* tokens; the name they stand for is the tokens joined by " | ", so       *)
(* <<"a", "file1">> is the column "a | file1".  This is what lets the      *)
(* substring tests and replacements of _changed_df_to_modified_rows be     *)
(* computed as the code computes them.                                     *)
(***************************************************************************)
EXTENDS Integers, Sequences, FiniteSets, TLC

VARIABLES mode, df1, df2, key, pc, outcome, meta, result, error,
          request, calls, tmpfile, response

\* the state of one comparison
cmpvars == <<mode, df1, df2, key, pc, outcome, meta, result, error>>

\* the state of the request that asked for it: which entry point with which
\* arguments, the calls it made so far to the validator and to the diff
\* engines, its temporary workbook file, and the HTTP response it returns
reqvars == <<request, calls, tmpfile, response>>

vars == <<cmpvars, reqvars>>

(***************************************************************************)
(* Bounds of the model.                                                    *)
(***************************************************************************)
MaxRows == 2        \* rows of a table of the diff engines
MaxRunRows == 12    \* rows of a long key column given to the validator

(***************************************************************************)
(* Values.                                                                 *)
(***************************************************************************)
NA == "<NA>"        \* pd.NA, a missing cell
None == "<None>"    \* Python None in a Field Change
EmptyStr == ""      \* what fillna("") writes

\* The strings of the model in Python's str order (code point order).
SortedStrings ==
    <<"1", "2", "3", "a", "b", "file1", "file2", "id", "l", "r", "row_index", "x", "y">>

StrRank(s) == CHOOSE i \in 1..Len(SortedStrings) : SortedStrings[i] = s

StrLess(s, t) == StrRank(s) < StrRank(t)

Min2(a, b) == IF a < b THEN a ELSE b

Range(s) == {s[i] : i \in 1..Len(s)}

\* str < str on two column names: the separator " | " starts with a space,
\* which sorts before every letter and digit, so the order of the joined
\* strings is the lexicographic order of the token sequences.
NameLess(n, m) ==
    LET lim == Min2(Len(n), Len(m))
        k == CHOOSE i \in 1..(lim + 1) :
                 /\ \A j \in 1..(i - 1) : n[j] = m[j]
                 /\ (i = lim + 1 \/ n[i] # m[i])
    IN  IF k = lim + 1 THEN Len(n) < Len(m) ELSE StrLess(n[k], m[k])

\* sorted(set of column names)
RECURSIVE sorted(_)
sorted(S) ==
    IF S = {} THEN <<>>
    ELSE LET m == CHOOSE x \in S : \A y \in S \ {x} : NameLess(x, y)
         IN  <<m>> \o sorted(S \ {m})

\* algos.safe_sort on an Index of strings
safe_sort(idx) == SortSeq(idx, StrLess)

\* Index.unique(): first occurrences, in order
RECURSIVE unique(_)
unique(idx) ==
    IF idx = <<>> THEN <<>>
    ELSE LET front == unique(SubSeq(idx, 1, Len(idx) - 1))
             last == idx[Len(idx)]
         IN  IF last \in Range(front) THEN front ELSE Append(front, last)

(***************************************************************************)
(* DataFrame access.                                                       *)
(***************************************************************************)
isna(v) == v = NA

columns_set(df) == Range(df.columns)

len(df) == Len(df.rows)

col_pos(df, c) == CHOOSE j \in 1..Len(df.columns) : df.columns[j] = c

at(df, i, c) == df.rows[i][col_pos(df, c)]

\* the rows idxs of df, in that order, restricted to the columns cols
take(df, idxs, cols) ==
    [columns |-> cols,
     rows |-> [k \in 1..Len(idxs) |-> [j \in 1..Len(cols) |-> at(df, idxs[k], cols[j])]]]

\* df[c] as an Index / Series of values
column(df, c) == [i \in 1..len(df) |-> at(df, i, c)]

\* df.set_index(k, drop=False).loc[keys, cols], for a unique index
loc(df, k, keys, cols) ==
    take(df, [n \in 1..Len(keys) |-> CHOOSE i \in 1..len(df) : at(df, i, k) = keys[n]], cols)

\* pandas Index.difference(other), sort=None: empty when the two are equal,
\* self.unique() unsorted when other is empty, else the sorted difference.
index_difference(self, other) ==
    IF self = other THEN <<>>
    ELSE IF Len(other) = 0 THEN unique(self)
    ELSE safe_sort(unique(SelectSeq(self, LAMBDA x : x \notin Range(other))))

\* pandas Index.intersection(other), sort=False: the elements of self that
\* are in other, in the order they have in self.
index_intersection(self, other) ==
    unique(SelectSeq(self, LAMBDA x : x \in Range(other)))

(***************************************************************************)
(* compare_excels: the keyed diff.                                         *)
(***************************************************************************)
\* differs, with a missing cell never equal to anything (NA == NA is not True)
differs_na_unequal(v1, v2) == isna(v1) \/ isna(v2) \/ v1 # v2

\* One cell of the mask of DataFrame.compare:
\* ~((self == other) | (self.isna() & other.isna())), NA filled with True.
differs(v1, v2) ==
    ~((isna(v1) /\ isna(v2)) \/ (~isna(v1) /\ ~isna(v2) /\ v1 = v2))

\* _flatten_columns on the column (c, side) of the compare() result:
\* " | ".join of the parts that are not empty.
flatten_columns(c, side) == IF side = "" THEN c ELSE Append(c, side)

\* left.compare(right, align_axis=1, keep_equal=False,
\*              result_names=("file1", "file2")).reset_index(), flattened.
\* keys is the common index of left and right, k its name.
compare(left, right, keys, k) ==
    LET cols == left.columns
        diff(i, j) == differs(left.rows[i][j], right.rows[i][j])
        keep_cols == SelectSeq([j \in 1..Len(cols) |-> j],
                               LAMBDA j : \E i \in 1..len(left) : diff(i, j))
        keep_rows == SelectSeq([i \in 1..len(left) |-> i],
                               LAMBDA i : \E j \in 1..Len(cols) : diff(i, j))
        side(m) == IF m % 2 = 1 THEN "file1" ELSE "file2"
        src(m) == keep_cols[(m + 1) \div 2]
        cell(i, m) == IF ~diff(i, src(m)) THEN NA
                      ELSE IF m % 2 = 1 THEN left.rows[i][src(m)]
                      ELSE right.rows[i][src(m)]
    IN  [columns |-> <<flatten_columns(k, "")>> \o
                     [m \in 1..(2 * Len(keep_cols)) |-> flatten_columns(cols[src(m)], side(m))],
         rows |-> [n \in 1..Len(keep_rows) |->
                     <<keys[keep_rows[n]]>> \o
                     [m \in 1..(2 * Len(keep_cols)) |-> cell(keep_rows[n], m)]]]

\* df.empty
empty(df) == Len(df.rows) = 0 \/ Len(df.columns) = 0

\* sorted(cols1 - cols2), sorted(cols2 - cols1)
only_in(d1, d2) == sorted(columns_set(d1) \ columns_set(d2))

\* common_columns, without sorted(): the common columns in the order of d2
common_columns_unsorted(d1, d2) ==
    SelectSeq(d2.columns, LAMBDA c : c \in columns_set(d1))

\* sorted(cols1 & cols2)
common_columns(d1, d2) == sorted(columns_set(d1) \cap columns_set(d2))

compare_excels(d1, d2, k) ==
    LET only_in_1 == only_in(d1, d2)
        only_in_2 == only_in(d2, d1)
        common_cols == common_columns(d1, d2)
        compare_cols == SelectSeq(common_cols, LAMBDA c : c # k)
        idx1 == column(d1, k)
        idx2 == column(d2, k)
        added_keys == index_difference(idx2, idx1)
        removed_keys == index_difference(idx1, idx2)
        common_keys == index_intersection(idx1, idx2)
        left == loc(d1, k, common_keys, compare_cols)
        right == loc(d2, k, common_keys, compare_cols)
        changed == compare(left, right, common_keys, k)
    IN  [added |-> loc(d2, k, added_keys, common_cols),
         removed |-> loc(d1, k, removed_keys, common_cols),
         changed |-> changed,
         meta |-> [only_in_1 |-> only_in_1,
                   only_in_2 |-> only_in_2,
                   common_cols |-> common_cols,
                   compare_cols |-> compare_cols,
                   added_count |-> Len(added_keys),
                   removed_count |-> Len(removed_keys),
                   changed_id_count |->
                       IF ~empty(changed)
                       THEN Cardinality(Range(column(changed, k)) \ {NA})
                       ELSE 0]]

(***************************************************************************)
(* _changed_df_to_modified_rows and get_comparison_for_frontend.           *)
(***************************************************************************)
\* " | file1" in c  (side = "file1"): the separator must precede the token
contains(c, side) == \E i \in 2..Len(c) : c[i] = side

\* c.replace(" | file1", "").strip()
replace(c, side) == <<c[1]>> \o SelectSeq(Tail(c), LAMBDA t : t # side)

\* col_pairs[base] = (c1, c2) on an insertion-ordered dict, kept as the
\* sequence of its items: an existing key keeps its place.
dict_set(d, base, c1, c2) ==
    IF \E n \in 1..Len(d) : d[n].base = base
    THEN [n \in 1..Len(d) |-> IF d[n].base = base
                              THEN [base |-> base, c1 |-> c1, c2 |-> c2]
                              ELSE d[n]]
    ELSE Append(d, [base |-> base, c1 |-> c1, c2 |-> c2])

\* the loop that groups the flattened columns by base name
RECURSIVE col_pairs(_, _, _, _)
col_pairs(changed, other_cols, n, d) ==
    IF n > Len(other_cols) THEN d
    ELSE LET c == other_cols[n]
             present(x) == x \in Range(changed.columns)
         IN  IF contains(c, "file1")
             THEN LET base == replace(c, "file1")
                      file2_col == Append(base, "file2")
                  IN  col_pairs(changed, other_cols, n + 1,
                                IF present(file2_col) THEN dict_set(d, base, c, file2_col)
                                ELSE d)
             ELSE IF contains(c, "file2") /\ c \notin {d[m].c2 : m \in 1..Len(d)}
             THEN LET base == replace(c, "file2")
                      file1_col == Append(base, "file1")
                  IN  col_pairs(changed, other_cols, n + 1,
                                IF present(file1_col) THEN dict_set(d, base, file1_col, c)
                                ELSE d)
             ELSE col_pairs(changed, other_cols, n + 1, d)

\* None if pd.isna(v) else str(v).strip()
none_or_str(v) == IF isna(v) THEN None ELSE v

\* the changes of one row of changed
row_changes(changed, i, pairs) ==
    LET one(n) == [column |-> pairs[n].base,
                   old_value |-> none_or_str(at(changed, i, pairs[n].c1)),
                   new_value |-> none_or_str(at(changed, i, pairs[n].c2))]
    IN  SelectSeq([n \in 1..Len(pairs) |-> one(n)],
                  LAMBDA ch : ch.old_value # ch.new_value)

changed_df_to_modified_rows(changed, k) ==
    IF empty(changed) THEN <<>>
    ELSE LET other_cols == SelectSeq(changed.columns, LAMBDA c : c # k)
             pairs == col_pairs(changed, other_cols, 1, <<>>)
             rec(i) == [id |-> at(changed, i, k), changes |-> row_changes(changed, i, pairs)]
         IN  SelectSeq([i \in 1..len(changed) |-> rec(i)],
                       LAMBDA m : m.changes # <<>>)

\* .fillna("").astype(str) on one cell
fillna_str(v) == IF isna(v) THEN EmptyStr ELSE v

\* df_to_list_of_dicts: [] for an empty frame, else one dict per row
df_to_list_of_dicts(df) ==
    IF empty(df) THEN <<>>
    ELSE [i \in 1..len(df) |-> [c \in columns_set(df) |-> fillna_str(at(df, i, c))]]

get_comparison_for_frontend(d1, d2, k) ==
    LET r == compare_excels(d1, d2, k)
    IN  [summary |-> [added_count |-> r.meta.added_count,
                      removed_count |-> r.meta.removed_count,
                      modified_count |-> r.meta.changed_id_count,
                      columns_only_in_file1 |-> r.meta.only_in_1,
                      columns_only_in_file2 |-> r.meta.only_in_2],
         added_rows |-> df_to_list_of_dicts(r.added),
         removed_rows |-> df_to_list_of_dicts(r.removed),
         modified_rows |-> changed_df_to_modified_rows(r.changed, k)]

(***************************************************************************)
(* compare_excels_by_position and its shaping.                             *)
(* Row positions are 0-based, as in the code: row i of the model is        *)
(* position i - 1.  A frame of the positional engine keeps the inserted    *)
(* integer column "row_index" in its own field.                            *)
(***************************************************************************)
ROW_INDEX == <<"row_index">>

\* tail_frame, with the projection [common_cols] left out
tail_frame_all_columns(df, lo, hi, cols) ==
    [columns |-> df.columns,
     rows |-> [n \in 1..(hi - lo) |-> df.rows[lo + n]],
     row_index |-> [n \in 1..(hi - lo) |-> lo + n - 1]]

\* df.iloc[lo:hi][cols] with row_index = range(lo, hi) inserted at column 0
tail_frame(df, lo, hi, cols) ==
    [columns |-> cols,
     rows |-> [n \in 1..(hi - lo) |-> [j \in 1..Len(cols) |-> at(df, lo + n, cols[j])]],
     row_index |-> [n \in 1..(hi - lo) |-> lo + n - 1]]

\* pd.DataFrame(columns=["row_index"] + common_cols)
no_rows_frame(cols) == [columns |-> cols, rows |-> <<>>, row_index |-> <<>>]

\* DataFrame.insert(0, "row_index", ...) raises ValueError when the frame
\* already has a column of that name.
insert_raises(d1, d2) ==
    LET common_cols == common_columns(d1, d2)
    IN  /\ len(d1) # len(d2)
        /\ common_cols # <<>>
        /\ ROW_INDEX \in Range(common_cols)

\* same, with the test of two missing cells left out
same_without_both_missing(v1, v2) == ~isna(v1) /\ ~isna(v2) /\ v1 = v2

\* the test of the loop body, lines 146-147
same(v1, v2) ==
    (isna(v1) /\ isna(v2)) \/ (~isna(v1) /\ ~isna(v2) /\ v1 = v2)

position_changes(d1, d2, i, common_cols) ==
    LET diff_cols == SelectSeq(common_cols,
                               LAMBDA c : ~same(at(d1, i, c), at(d2, i, c)))
    IN  [m \in 1..Len(diff_cols) |->
            [column |-> diff_cols[m],
             old_value |-> none_or_str(at(d1, i, diff_cols[m])),
             new_value |-> none_or_str(at(d2, i, diff_cols[m]))]]

compare_excels_by_position(d1, d2) ==
    LET only_in_1 == only_in(d1, d2)
        only_in_2 == only_in(d2, d1)
        common_cols == common_columns(d1, d2)
        n1 == len(d1)
        n2 == len(d2)
        added == IF n2 > n1 /\ common_cols # <<>>
                 THEN tail_frame(d2, n1, n2, common_cols)
                 ELSE no_rows_frame(common_cols)
        removed == IF n1 > n2 /\ common_cols # <<>>
                   THEN tail_frame(d1, n2, n1, common_cols)
                   ELSE no_rows_frame(common_cols)
        rec(i) == [row_index |-> i - 1, changes |-> position_changes(d1, d2, i, common_cols)]
        modified_list == SelectSeq([i \in 1..Min2(n1, n2) |-> rec(i)],
                                   LAMBDA m : m.changes # <<>>)
    IN  [added |-> added,
         removed |-> removed,
         modified_list |-> modified_list,
         meta |-> [only_in_1 |-> only_in_1,
                   only_in_2 |-> only_in_2,
                   common_cols |-> common_cols,
                   added_count |-> Len(added.rows),
                   removed_count |-> Len(removed.rows),
                   changed_id_count |-> Len(modified_list)]]

\* df_to_list_of_dicts of the positional shaper: the integer row_index is
\* rendered by astype(str), the cells by fillna("").
position_df_to_list_of_dicts(df) ==
    IF Len(df.rows) = 0 THEN <<>>
    ELSE [i \in 1..Len(df.rows) |->
            (ROW_INDEX :> ToString(df.row_index[i])) @@
            [c \in Range(df.columns) |-> fillna_str(at(df, i, c))]]

get_comparison_for_frontend_by_position(d1, d2) ==
    LET r == compare_excels_by_position(d1, d2)
    IN  [summary |-> [added_count |-> r.meta.added_count,
                      removed_count |-> r.meta.removed_count,
                      modified_count |-> r.meta.changed_id_count,
                      columns_only_in_file1 |-> r.meta.only_in_1,
                      columns_only_in_file2 |-> r.meta.only_in_2],
         added_rows |-> position_df_to_list_of_dicts(r.added),
         removed_rows |-> position_df_to_list_of_dicts(r.removed),
         modified_rows |->
             [n \in 1..Len(r.modified_list) |->
                 [id |-> "Row " \o ToString(r.modified_list[n].row_index),
                  row_index |-> r.modified_list[n].row_index,
                  changes |-> r.modified_list[n].changes]],
         mode |-> "position"]

(***************************************************************************)
(* _validate_primary_key.  The ValueError it raises is kept as a record:   *)
(* kind names which of the three raises it was, the other fields are what  *)
(* the message is formatted from.                                          *)
(***************************************************************************)
SampleRows == 5
ExampleDupes == 10

\* head, with the limit left out
head_unlimited(s, n) == s

\* Series.head(n), DataFrame.head(n)
head(s, n) == SubSeq(s, 1, Min2(n, Len(s)))

\* Series.duplicated(keep=False) at row i
duplicated(idx, i) == \E j \in 1..Len(idx) : j # i /\ idx[j] = idx[i]

NoError == [kind |-> "ok", label |-> "", key |-> <<>>, columns |-> <<>>,
            bad |-> <<>>, dupes |-> <<>>]

\* validate_primary_key, with the test for duplicates left out
validate_primary_key_without_dupes(df, k, label) ==
    IF k \notin columns_set(df)
    THEN [NoError EXCEPT !.kind = "KeyNotFound", !.label = label, !.key = k,
                         !.columns = df.columns]
    ELSE IF \E i \in 1..len(df) : isna(at(df, i, k))
    THEN [NoError EXCEPT !.kind = "KeyHasMissingValues", !.label = label, !.key = k]
    ELSE NoError

validate_primary_key(df, k, label) ==
    IF k \notin columns_set(df)
    THEN [NoError EXCEPT !.kind = "KeyNotFound", !.label = label, !.key = k,
                         !.columns = df.columns]
    ELSE LET idx == column(df, k)
             na_rows == SelectSeq([i \in 1..len(df) |-> i], LAMBDA i : isna(idx[i]))
             dup_rows == SelectSeq([i \in 1..len(df) |-> i], LAMBDA i : duplicated(idx, i))
             dupes == head([n \in 1..Len(dup_rows) |-> idx[dup_rows[n]]], ExampleDupes)
         IN  IF na_rows # <<>>
             THEN [NoError EXCEPT !.kind = "KeyHasMissingValues", !.label = label, !.key = k,
                                  !.bad = head([n \in 1..Len(na_rows) |-> df.rows[na_rows[n]]],
                                               SampleRows)]
             ELSE IF dupes # <<>>
             THEN [NoError EXCEPT !.kind = "KeyNotUnique", !.label = label, !.key = k,
                                  !.dupes = dupes]
             ELSE NoError

(***************************************************************************)
(* Inputs: normalized tables (load_excel: every cell a stripped non-empty  *)
(* string or NA, column names distinct).                                   *)
(***************************************************************************)
ID == <<"id">>
A == <<"a">>
B == <<"b">>
L == <<"l">>
R == <<"r">>
A_FILE1 == <<"a", "file1">>     \* the column "a | file1"

KeyVals == {"1", "2", "3"}
FewKeyVals == {"1", "2"}
CellVals == {NA, "x", "y"}
FewCellVals == {NA, "x"}

\* the values the cells of column c are drawn from
Dom(c, keyvals) ==
    IF c = ID THEN keyvals ELSE IF c = A THEN CellVals ELSE FewCellVals

RowsOf(cols, keyvals) ==
    {r \in [1..Len(cols) -> KeyVals \cup CellVals] :
        \A j \in 1..Len(cols) : r[j] \in Dom(cols[j], keyvals)}

\* the tables with columns cols and at most n rows
Frames(cols, keyvals, n) ==
    {[columns |-> cols, rows |-> rs] :
        rs \in UNION {[1..m -> RowsOf(cols, keyvals)] : m \in 0..n}}

\* the key column holds no NA and no value twice (it passed validation)
ValidKey(df, k) ==
    /\ k \in columns_set(df)
    /\ \A i \in 1..len(df) : ~isna(at(df, i, k))
    /\ \A i, j \in 1..len(df) : i # j => at(df, i, k) # at(df, j, k)

KeyedFrames(cols, keyvals, n) == {df \in Frames(cols, keyvals, n) : ValidKey(df, ID)}

EmptyFrame == [columns |-> <<>>, rows |-> <<>>]

NoResult ==
    [summary |-> [added_count |-> 0, removed_count |-> 0, modified_count |-> 0,
                  columns_only_in_file1 |-> <<>>, columns_only_in_file2 |-> <<>>],
     added_rows |-> <<>>, removed_rows |-> <<>>, modified_rows |-> <<>>]

NoMeta == [only_in_1 |-> <<>>, only_in_2 |-> <<>>, common_cols |-> <<>>]

\* no HTTP response yet
NoResponse ==
    [status |-> 0, code |-> "", error |-> NoError,
     columns_file1 |-> <<>>, columns_file2 |-> <<>>, body |-> ""]

\* a comparison or validation called directly, outside any request
NoRequest ==
    /\ request = [handler |-> "", json |-> FALSE, rows |-> ""]
    /\ calls = <<>>
    /\ tmpfile = "none"
    /\ response = NoResponse

\* column layouts (left, right): narrow ones get MaxRows rows, wide ones
\* MaxRows - 1
KeyedNarrow == {<<<<ID>>, <<ID>>>>, <<<<ID, A>>, <<ID, A>>>>}
KeyedWide == {<<<<A, ID, L>>, <<R, ID, A>>>>, <<<<ID, A, A_FILE1>>, <<ID, A, A_FILE1>>>>}

PositionNarrow == {<<<<A>>, <<A>>>>, <<<<A>>, <<B>>>>, <<<<A, B>>, <<B, A>>>>}
PositionWide == {<<<<A, L>>, <<R, A>>>>,
                 <<<<ROW_INDEX, A>>, <<ROW_INDEX, A>>>>,
                 <<<<ROW_INDEX, L>>, <<R, ROW_INDEX>>>>}

(***************************************************************************)
(* One comparison: two tables are given, in keyed mode (both validated) or *)
(* in positional mode, and the comparison for the front end is computed.   *)
(***************************************************************************)
InitKey ==
    /\ mode = "key"
    /\ key = ID
    /\ \/ \E lay \in KeyedNarrow :
            /\ df1 \in KeyedFrames(lay[1], KeyVals, MaxRows)
            /\ df2 \in KeyedFrames(lay[2], KeyVals, MaxRows)
       \/ \E lay \in KeyedWide :
            /\ df1 \in KeyedFrames(lay[1], FewKeyVals, MaxRows - 1)
            /\ df2 \in KeyedFrames(lay[2], FewKeyVals, MaxRows - 1)

InitPos ==
    /\ mode = "position"
    /\ key = <<>>
    /\ \/ \E lay \in PositionNarrow :
            /\ df1 \in Frames(lay[1], KeyVals, MaxRows)
            /\ df2 \in Frames(lay[2], KeyVals, MaxRows)
       \/ \E lay \in PositionWide :
            /\ df1 \in Frames(lay[1], KeyVals, MaxRows - 1)
            /\ df2 \in Frames(lay[2], KeyVals, MaxRows - 1)

Init ==
    /\ InitKey \/ InitPos
    /\ pc = "start"
    /\ outcome = "none"
    /\ meta = NoMeta
    /\ result = NoResult
    /\ error = NoError
    /\ NoRequest

\* get_comparison_for_frontend(df1, df2, key)
KeyedCompare ==
    /\ pc = "start"
    /\ mode = "key"
    /\ meta' = compare_excels(df1, df2, key).meta
    /\ result' = get_comparison_for_frontend(df1, df2, key)
    /\ outcome' = "ok"
    /\ pc' = "done"
    /\ UNCHANGED <<mode, df1, df2, key, error>>
    /\ UNCHANGED reqvars

\* get_comparison_for_frontend_by_position(df1, df2) returns
PositionCompare ==
    /\ pc = "start"
    /\ mode = "position"
    /\ ~insert_raises(df1, df2)
    /\ meta' = compare_excels_by_position(df1, df2).meta
    /\ result' = get_comparison_for_frontend_by_position(df1, df2)
    /\ outcome' = "ok"
    /\ pc' = "done"
    /\ UNCHANGED <<mode, df1, df2, key, error>>
    /\ UNCHANGED reqvars

\* get_comparison_for_frontend_by_position(df1, df2) raises ValueError
PositionCompareRaises ==
    /\ pc = "start"
    /\ mode = "position"
    /\ insert_raises(df1, df2)
    /\ outcome' = "raised"
    /\ pc' = "done"
    /\ UNCHANGED <<mode, df1, df2, key, meta, result, error>>
    /\ UNCHANGED reqvars

Next == KeyedCompare \/ PositionCompare \/ PositionCompareRaises

Spec == Init /\ [][Next]_vars

(***************************************************************************)
(* The validation of one table's primary key.                              *)
(***************************************************************************)
\* a key column of a copies of "1", b copies of "2" and c missing cells
RunFrame(a, b, c) ==
    [columns |-> <<ID>>,
     rows |-> [i \in 1..(a + b + c) |->
                 <<IF i <= a THEN "1" ELSE IF i <= a + b THEN "2" ELSE NA>>]]

RunFrames ==
    {RunFrame(a, b, c) : a \in 0..MaxRunRows, b \in 0..MaxRunRows, c \in 0..MaxRunRows}

InitVal ==
    /\ mode = "validate"
    /\ key = ID
    /\ \/ \E cols \in {<<A>>, <<ID>>, <<A, ID>>} :
            df1 \in Frames(cols, {"1", "2", NA}, MaxRows)
       \/ /\ df1 \in RunFrames
          /\ len(df1) <= MaxRunRows
    /\ df2 = EmptyFrame
    /\ pc = "start"
    /\ outcome = "none"
    /\ meta = NoMeta
    /\ result = NoResult
    /\ error = NoError
    /\ NoRequest

\* _validate_primary_key(df1, key, "file1") returns
ValidateOk ==
    /\ pc = "start"
    /\ mode = "validate"
    /\ validate_primary_key(df1, key, "file1").kind = "ok"
    /\ outcome' = "ok"
    /\ pc' = "done"
    /\ UNCHANGED <<mode, df1, df2, key, meta, result, error>>
    /\ UNCHANGED reqvars

\* _validate_primary_key(df1, key, "file1") raises ValueError
ValidateRaises ==
    /\ pc = "start"
    /\ mode = "validate"
    /\ validate_primary_key(df1, key, "file1").kind # "ok"
    /\ error' = validate_primary_key(df1, key, "file1")
    /\ outcome' = "raised"
    /\ pc' = "done"
    /\ UNCHANGED <<mode, df1, df2, key, meta, result>>
    /\ UNCHANGED reqvars

NextVal == ValidateOk \/ ValidateRaises

SpecVal == InitVal /\ [][NextVal]_vars

(***************************************************************************)
(* What the specification says of a comparison, stated on the two input    *)
(* tables themselves.                                                      *)
(***************************************************************************)
Done == pc = "done" /\ outcome = "ok"

KeyedDone == Done /\ mode = "key"

PositionDone == Done /\ mode = "position"

Common == columns_set(df1) \cap columns_set(df2)

LeftKeys == {at(df1, i, key) : i \in 1..len(df1)}

RightKeys == {at(df2, i, key) : i \in 1..len(df2)}

\* the row of df that holds key value k
RowOfKey(df, k) == CHOOSE i \in 1..len(df) : at(df, i, key) = k

\* a missing cell shown in an added or removed row, and in a Field Change
Shown(v) == IF v = NA THEN "" ELSE v

Marked(v) == IF v = NA THEN None ELSE v

\* row i of df projected onto the common columns
Projected(df, i) == [c \in Common |-> Shown(at(df, i, c))]

\* the equality rule: equal iff both missing, or both present and string-equal
EqualCells(v1, v2) == (v1 = NA /\ v2 = NA) \/ (v1 # NA /\ v2 # NA /\ v1 = v2)

\* the common keys whose rows differ in a compared column
ModifiedKeys ==
    {k \in LeftKeys \cap RightKeys :
        \E c \in Common \ {key} :
            ~EqualCells(at(df1, RowOfKey(df1, k), c), at(df2, RowOfKey(df2, k), c))}

Ids(records) == [n \in 1..Len(records) |-> records[n].id]

KeysOf(rows) == [n \in 1..Len(rows) |-> rows[n][key]]

\* C1: in a keyed comparison the added rows are exactly the right rows whose
\* key is not in the left table, the removed rows exactly the left rows whose
\* key is not in the right table, the modified records exactly the common
\* keys with an unequal compared column, each carrying id = the key value,
\* and no key is in two of the three lists.
C1_KeyedClassification ==
    KeyedDone =>
        /\ Range(result.added_rows) =
               {Projected(df2, RowOfKey(df2, k)) : k \in RightKeys \ LeftKeys}
        /\ Len(result.added_rows) = Cardinality(RightKeys \ LeftKeys)
        /\ Range(result.removed_rows) =
               {Projected(df1, RowOfKey(df1, k)) : k \in LeftKeys \ RightKeys}
        /\ Len(result.removed_rows) = Cardinality(LeftKeys \ RightKeys)
        /\ Range(Ids(result.modified_rows)) = ModifiedKeys
        /\ Len(result.modified_rows) = Cardinality(ModifiedKeys)
        /\ Range(KeysOf(result.added_rows)) \cap Range(KeysOf(result.removed_rows)) = {}
        /\ Range(KeysOf(result.added_rows)) \cap Range(Ids(result.modified_rows)) = {}
        /\ Range(KeysOf(result.removed_rows)) \cap Range(Ids(result.modified_rows)) = {}

\* C2: in a keyed comparison the added rows are in the order of their rows in
\* the right table, the removed rows in the order of their rows in the left
\* table, and the modified records in the order of their keys in the left
\* table.
C2_KeyedOrdering ==
    KeyedDone =>
        /\ KeysOf(result.added_rows) =
               SelectSeq(column(df2, key), LAMBDA k : k \notin LeftKeys)
        /\ KeysOf(result.removed_rows) =
               SelectSeq(column(df1, key), LAMBDA k : k \notin RightKeys)
        /\ Ids(result.modified_rows) =
               SelectSeq(column(df1, key),
                         LAMBDA k : k \in Range(Ids(result.modified_rows)))

\* the Field Change the rule asks for on column c of a matched pair of rows
FieldChange(c, v1, v2) == [column |-> c, old_value |-> Marked(v1), new_value |-> Marked(v2)]

\* the changes a matched pair of rows (i of df1, j of df2) must carry over the
\* columns cs: one per unequal column, and nothing else
RuleHolds(changes, i, j, cs) ==
    /\ \A c \in cs :
           FieldChange(c, at(df1, i, c), at(df2, j, c)) \in Range(changes)
               <=> ~EqualCells(at(df1, i, c), at(df2, j, c))
    /\ \A ch \in Range(changes) :
           /\ ch.column \in cs
           /\ ch = FieldChange(ch.column, at(df1, i, ch.column), at(df2, j, ch.column))
           /\ ch.old_value # ch.new_value

\* the changes reported for the pair matched under identifier id
ChangesOf(records, id) ==
    IF \E n \in 1..Len(records) : records[n].id = id
    THEN records[CHOOSE n \in 1..Len(records) : records[n].id = id].changes
    ELSE <<>>

\* C3: in both modes, for every matched pair of rows and every compared
\* common column a Field Change {column, old_value = left, new_value = right}
\* is emitted iff the two cells are unequal under the equality rule; a cell
\* missing in both never yields one, and every emitted one has
\* old_value # new_value.
C3_EqualityRule ==
    /\ KeyedDone =>
           \A k \in LeftKeys \cap RightKeys :
               RuleHolds(ChangesOf(result.modified_rows, k),
                         RowOfKey(df1, k), RowOfKey(df2, k), Common \ {key})
    /\ PositionDone =>
           \A i \in 1..Min2(len(df1), len(df2)) :
               RuleHolds(ChangesOf(result.modified_rows, "Row " \o ToString(i - 1)),
                         i, i, Common)

\* the tail of df from position lo on, as the positional result shows it
TailRows(df, lo) ==
    [n \in 1..(len(df) - lo) |->
        (ROW_INDEX :> ToString(lo + n - 1)) @@ Projected(df, lo + n)]

\* C4: the positional comparison reports the right rows at positions
\* n1..n2-1 as added when n2 > n1 (and nothing removed), the left rows at
\* positions n2..n1-1 as removed when n1 > n2 (and nothing added), neither
\* when n1 = n2; the summary counts are those numbers.
C4_PositionalTail ==
    PositionDone =>
        LET n1 == len(df1)
            n2 == len(df2)
        IN  /\ result.added_rows = IF n2 > n1 THEN TailRows(df2, n1) ELSE <<>>
            /\ result.removed_rows = IF n1 > n2 THEN TailRows(df1, n2) ELSE <<>>
            /\ result.summary.added_count = IF n2 > n1 THEN n2 - n1 ELSE 0
            /\ result.summary.removed_count = IF n1 > n2 THEN n1 - n2 ELSE 0

\* the positions (rows of the model) at which the two tables differ
DiffPositions ==
    {i \in 1..Min2(len(df1), len(df2)) :
        \E c \in Common : ~EqualCells(at(df1, i, c), at(df2, i, c))}

StrictlySorted(names) ==
    \A n \in 1..(Len(names) - 1) : NameLess(names[n], names[n + 1])

\* C5: the positional comparison emits a modified record for position i iff
\* i < min(n1, n2) and the two rows at i differ in a common column; the
\* record has id "Row i" and row_index i, its changes are in lexicographic
\* column order, and the records come in strictly increasing i.
C5_PositionalModified ==
    PositionDone =>
        LET recs == result.modified_rows
        IN  /\ {recs[n].row_index + 1 : n \in 1..Len(recs)} = DiffPositions
            /\ \A n \in 1..(Len(recs) - 1) : recs[n].row_index < recs[n + 1].row_index
            /\ \A n \in 1..Len(recs) :
                   /\ recs[n].id = "Row " \o ToString(recs[n].row_index)
                   /\ recs[n].changes # <<>>
                   /\ StrictlySorted([m \in 1..Len(recs[n].changes) |->
                                         recs[n].changes[m].column])

C5_Witness ==
    /\ PositionDone
    /\ Len(result.modified_rows) = 2
    /\ Len(result.modified_rows[1].changes) = 2
    /\ Len(result.modified_rows[2].changes) = 1

\* the changes with old_value and new_value exchanged
Exchanged(changes) ==
    [n \in 1..Len(changes) |->
        [column |-> changes[n].column,
         old_value |-> changes[n].new_value,
         new_value |-> changes[n].old_value]]

\* the comparison of (df2, df1)
SwappedResult ==
    IF mode = "key" THEN get_comparison_for_frontend(df2, df1, key)
    ELSE get_comparison_for_frontend_by_position(df2, df1)

\* C6: comparing (right, left) gives added_rows = the original removed_rows,
\* removed_rows = the original added_rows, and modified records with the
\* same identifiers and old_value and new_value exchanged in every Field
\* Change, in keyed and in positional mode.
C6_Symmetry ==
    Done =>
        /\ SwappedResult.added_rows = result.removed_rows
        /\ SwappedResult.removed_rows = result.added_rows
        /\ Range(Ids(SwappedResult.modified_rows)) = Range(Ids(result.modified_rows))
        /\ \A id \in Range(Ids(result.modified_rows)) :
               ChangesOf(SwappedResult.modified_rows, id) =
                   Exchanged(ChangesOf(result.modified_rows, id))

\* C7: comparing a table with itself gives no added, removed or modified
\* rows and three summary counts of 0, in positional mode for every table
\* and in keyed mode for every table with a valid key.
C7_Idempotence ==
    (pc = "done" /\ df1 = df2) =>
        /\ outcome = "ok"
        /\ result.added_rows = <<>>
        /\ result.removed_rows = <<>>
        /\ result.modified_rows = <<>>
        /\ result.summary.added_count = 0
        /\ result.summary.removed_count = 0
        /\ result.summary.modified_count = 0

C7_Witness ==
    /\ pc = "done"
    /\ df1 = df2
    /\ mode = "key"
    /\ len(df1) >= 2
    /\ \E i \in 1..len(df1) : \E c \in columns_set(df1) : at(df1, i, c) = NA

OneSided ==
    (columns_set(df1) \ columns_set(df2)) \cup (columns_set(df2) \ columns_set(df1))

\* all rows of df, restricted to the common columns
OnCommon(df) == take(df, [i \in 1..len(df) |-> i], sorted(Common))

\* C8: a column of only one table is never a field of an added or removed
\* row nor the column of a Field Change; it is listed in
\* summary.columns_only_in_file1 / columns_only_in_file2; and the schema
\* mismatch never makes the comparison fail (a comparison that fails also
\* fails on the two tables cut down to their common columns).
C8_SchemaIsolation ==
    /\ Done =>
           /\ \A row \in Range(result.added_rows) \cup Range(result.removed_rows) :
                  DOMAIN row \cap OneSided = {}
           /\ \A m \in Range(result.modified_rows) :
                  \A ch \in Range(m.changes) : ch.column \in Common
           /\ Range(result.summary.columns_only_in_file1) =
                  columns_set(df1) \ columns_set(df2)
           /\ Range(result.summary.columns_only_in_file2) =
                  columns_set(df2) \ columns_set(df1)
    /\ (pc = "done" /\ outcome = "raised") => insert_raises(OnCommon(df1), OnCommon(df2))

C8_Witness ==
    /\ PositionDone
    /\ columns_set(df1) \ columns_set(df2) # {}
    /\ columns_set(df2) \ columns_set(df1) # {}
    /\ Common # {}
    /\ result.added_rows # <<>>

\* the permutations of 1..n
Perms(n) == {p \in [1..n -> 1..n] : \A i, j \in 1..n : p[i] = p[j] => i = j}

\* df with its columns in the order p
Permuted(df, p) ==
    [columns |-> [j \in 1..Len(df.columns) |-> df.columns[p[j]]],
     rows |-> [i \in 1..len(df) |-> [j \in 1..Len(df.columns) |-> df.rows[i][p[j]]]]]

ResultOf(d1, d2) ==
    IF mode = "key" THEN get_comparison_for_frontend(d1, d2, key)
    ELSE get_comparison_for_frontend_by_position(d1, d2)

\* the column diff and the result of (d1, d2) are those of (df1, df2)
SameOutput(d1, d2) ==
    /\ only_in(d1, d2) = meta.only_in_1
    /\ only_in(d2, d1) = meta.only_in_2
    /\ common_columns(d1, d2) = meta.common_cols
    /\ ResultOf(d1, d2) = result

Identity(n) == [i \in 1..n |-> i]

\* C9: only_in_1, only_in_2 and common_cols partition the union of the two
\* tables' column names, each is in lexicographic order, and permuting the
\* columns of either table changes neither the three lists nor the result
\* (so the column order of every Field Change list is unchanged).
C9_ColumnOrder ==
    Done =>
        /\ Range(meta.only_in_1) = columns_set(df1) \ columns_set(df2)
        /\ Range(meta.only_in_2) = columns_set(df2) \ columns_set(df1)
        /\ Range(meta.common_cols) = Common
        /\ StrictlySorted(meta.only_in_1)
        /\ StrictlySorted(meta.only_in_2)
        /\ StrictlySorted(meta.common_cols)
        /\ \A p \in Perms(Len(df1.columns)) \ {Identity(Len(df1.columns))} :
               SameOutput(Permuted(df1, p), df2)
        /\ \A p \in Perms(Len(df2.columns)) \ {Identity(Len(df2.columns))} :
               SameOutput(df1, Permuted(df2, p))

C9_Witness ==
    /\ KeyedDone
    /\ Len(meta.common_cols) >= 2
    /\ meta.only_in_1 # <<>>
    /\ meta.only_in_2 # <<>>
    /\ df2.columns # sorted(columns_set(df2))
    /\ result.modified_rows # <<>>

(***************************************************************************)
(* What the specification says of the key validator.                       *)
(***************************************************************************)
KeyPresent == key \in columns_set(df1)

MissingKeyRows == SelectSeq([i \in 1..len(df1) |-> i], LAMBDA i : at(df1, i, key) = NA)

RepeatedKeyRows ==
    SelectSeq([i \in 1..len(df1) |-> i],
              LAMBDA i : \E j \in 1..len(df1) : j # i /\ at(df1, j, key) = at(df1, i, key))

FirstOf(s, n) == [i \in 1..Min2(n, Len(s)) |-> s[i]]

\* the outcome of the validator: which error, if any, and when
ValidatorOutcome ==
    /\ error.kind = "KeyNotFound" <=> ~KeyPresent
    /\ error.kind = "KeyHasMissingValues" <=> (KeyPresent /\ MissingKeyRows # <<>>)
    /\ error.kind = "KeyNotUnique" <=>
           (KeyPresent /\ MissingKeyRows = <<>> /\ RepeatedKeyRows # <<>>)
    /\ outcome = "ok" <=>
           (KeyPresent /\ MissingKeyRows = <<>> /\ RepeatedKeyRows = <<>>)
    /\ outcome = "ok" <=> error.kind = "ok"
    /\ error.kind = "KeyHasMissingValues" =>
           /\ Len(error.bad) <= 5
           /\ error.bad = [n \in 1..Len(FirstOf(MissingKeyRows, 5)) |->
                              df1.rows[MissingKeyRows[n]]]
    /\ error.kind = "KeyNotUnique" =>
           /\ Len(error.dupes) <= 10
           /\ error.dupes = [n \in 1..Len(FirstOf(RepeatedKeyRows, 10)) |->
                                at(df1, RepeatedKeyRows[n], key)]

\* C10 as amended: the validator fails with key-not-found iff the key column
\* is absent; otherwise with missing-values iff a key cell is missing (with
\* the first rows that miss it, at most 5); otherwise with not-unique iff a
\* key value is in two or more rows (with the key cells of the first rows
\* that repeat a value, at most 10, and no count of them); and succeeds
\* exactly when the key is present, never missing and never repeated.
C10_ValidatorOutcome == pc = "done" => ValidatorOutcome

C10_Witness ==
    /\ pc = "done"
    /\ error.kind = "KeyNotUnique"
    /\ Len(error.dupes) = 10
    /\ Len(RepeatedKeyRows) > 10
    /\ Cardinality(Range(error.dupes)) = 2

\* C10: as above, and the not-unique error carries the count of the
\* duplicates: what it carries tells how many rows repeat a key value.
C10_ValidatorWithCount ==
    pc = "done" =>
        /\ ValidatorOutcome
        /\ error.kind = "KeyNotUnique" => Len(error.dupes) = Len(RepeatedKeyRows)

(***************************************************************************)
(* What the specification says of the shape of a Comparison Result.        *)
(***************************************************************************)
\* an added or removed row shows row i of df: a missing cell as "", any
\* other cell as it is
ShowsRow(row, df, i) ==
    \A c \in Common : row[c] # NA /\ row[c] # None /\ row[c] = Shown(at(df, i, c))

\* a Field Change of the matched rows i of df1 and j of df2 marks a missing
\* cell as None, never as "", and is never None on both sides
MarksCells(ch, i, j) ==
    /\ ch.old_value \notin {EmptyStr, NA}
    /\ ch.new_value \notin {EmptyStr, NA}
    /\ ~(ch.old_value = None /\ ch.new_value = None)
    /\ isna(at(df1, i, ch.column)) => ch.old_value = None
    /\ isna(at(df2, j, ch.column)) => ch.new_value = None

\* C13: in the result of either mode a missing cell of an added or removed
\* row is the empty string, a missing old_value or new_value of a Field
\* Change is None and never the empty string, and no Field Change has both
\* values None.
C13_MissingValueShaping ==
    /\ KeyedDone =>
           /\ \A row \in Range(result.added_rows) :
                  ShowsRow(row, df2, RowOfKey(df2, row[key]))
           /\ \A row \in Range(result.removed_rows) :
                  ShowsRow(row, df1, RowOfKey(df1, row[key]))
           /\ \A m \in Range(result.modified_rows) : \A ch \in Range(m.changes) :
                  MarksCells(ch, RowOfKey(df1, m.id), RowOfKey(df2, m.id))
    /\ PositionDone =>
           /\ \A n \in 1..Len(result.added_rows) :
                  ShowsRow(result.added_rows[n], df2, len(df1) + n)
           /\ \A n \in 1..Len(result.removed_rows) :
                  ShowsRow(result.removed_rows[n], df1, len(df2) + n)
           /\ \A m \in Range(result.modified_rows) : \A ch \in Range(m.changes) :
                  MarksCells(ch, m.row_index + 1, m.row_index + 1)

\* C14: in every result of either mode the three summary counts are the
\* lengths of added_rows, removed_rows and modified_rows.
C14_SummaryConsistency ==
    Done =>
        /\ result.summary.added_count = Len(result.added_rows)
        /\ result.summary.removed_count = Len(result.removed_rows)
        /\ result.summary.modified_count = Len(result.modified_rows)

\* C16: the positional comparison returns a result for every pair of
\* normalized tables, and the keyed comparison for every pair of tables
\* whose key passed validation: no comparison ends by raising.
C16_EnginesTotal == pc = "done" => outcome = "ok"

(***************************************************************************)
(* The entry points that validate, compare and export: main (the CLI) in   *)
(* keyed mode, /api/compare in keyed mode, /api/export-excel in both modes *)
(* and /api/export-cell-level-excel.  A step is one statement or call of   *)
(* the handler; pc is the handler's position.  calls is the log of the     *)
(* calls made to the validator and to the diff engines.  The app is served *)
(* with exceptions not propagated, so that an exception a view does not    *)
(* catch becomes a 500 response.                                           *)
(***************************************************************************)
\* the tables of a keyed request: the key column alone, a table without the
\* key column, the key column and one more
ReqFrames ==
    Frames(<<ID>>, {"1", "2", NA}, MaxRows)
        \cup Frames(<<B>>, KeyVals, 1)
        \cup Frames(<<ID, B>>, {"1", NA}, MaxRows - 1)

\* the tables of a positional export
PositionReqFrames == Frames(<<ROW_INDEX>>, KeyVals, 1) \cup Frames(<<B>>, KeyVals, 1)

InitReq ==
    /\ \/ /\ mode = "key"
          /\ key = ID
          /\ request \in
                 [handler : {"main"}, json : BOOLEAN, rows : {""}] \cup
                 [handler : {"api_compare", "api_export_excel"}, json : {FALSE}, rows : {""}]
          /\ df1 \in ReqFrames
          /\ df2 \in ReqFrames
       \/ /\ mode = "position"
          /\ key = <<>>
          /\ request = [handler |-> "api_export_excel", json |-> FALSE, rows |-> ""]
          /\ df1 \in PositionReqFrames
          /\ df2 \in PositionReqFrames
       \/ /\ mode = "cells"
          /\ key = <<>>
          /\ request \in [handler : {"api_export_cell_level_excel"}, json : {FALSE},
                          rows : {"empty", "malformed", "rows"}]
          /\ df1 = EmptyFrame
          /\ df2 = EmptyFrame
    /\ pc = "start"
    /\ outcome = "none"
    /\ meta = NoMeta
    /\ result = NoResult
    /\ error = NoError
    /\ calls = <<>>
    /\ tmpfile = "none"
    /\ response = NoResponse

\* return jsonify({"error": ..., "code": ..., ...}), 400
jsonify_error(code, e, cols1, cols2) ==
    [status |-> 400, code |-> code, error |-> e,
     columns_file1 |-> cols1, columns_file2 |-> cols2, body |-> "json"]

\* the response made of an exception that the view did not catch
server_error == [NoResponse EXCEPT !.status = 500]

\* not_found_in, naming the left table whenever it lacks the key
not_found_in_left_first(in1, in2) == IF ~in1 THEN "file1" ELSE "file2"

\* the message of /api/compare when the key is not a column of both tables
not_found_in(in1, in2) ==
    IF ~in1 /\ ~in2 THEN "either file" ELSE IF ~in1 THEN "file1" ELSE "file2"

\* if key not in cols1 or key not in cols2: the key is in both
CheckKeyPresent ==
    /\ pc = "start"
    /\ mode = "key"
    /\ request.handler \in {"api_compare", "api_export_excel"}
    /\ key \in columns_set(df1)
    /\ key \in columns_set(df2)
    /\ pc' = "checked"
    /\ UNCHANGED <<mode, df1, df2, key, outcome, meta, result, error>>
    /\ UNCHANGED reqvars

\* if key not in cols1 or key not in cols2: return ..., 400
CheckKeyMissing ==
    /\ pc = "start"
    /\ mode = "key"
    /\ request.handler \in {"api_compare", "api_export_excel"}
    /\ LET in1 == key \in columns_set(df1)
           in2 == key \in columns_set(df2)
       IN  /\ ~in1 \/ ~in2
           /\ response' =
                  IF request.handler = "api_compare"
                  THEN jsonify_error("primary_key_missing",
                                     [NoError EXCEPT !.kind = "KeyNotFound",
                                                     !.label = not_found_in(in1, in2),
                                                     !.key = key],
                                     df1.columns, df2.columns)
                  ELSE jsonify_error("",
                                     [NoError EXCEPT !.kind = "KeyNotFound",
                                                     !.label = "both files",
                                                     !.key = key],
                                     <<>>, <<>>)
    /\ outcome' = "rejected"
    /\ pc' = "done"
    /\ UNCHANGED <<mode, df1, df2, key, meta, result, error>>
    /\ UNCHANGED <<request, calls, tmpfile>>

\* _validate_primary_key(df, key, label) called at position from: it returns,
\* or raises ValueError, which main lets escape and the views turn into a 400
Validate(df, label, from, to) ==
    /\ pc = from
    /\ mode = "key"
    /\ LET e == validate_primary_key(df, key, label)
       IN  /\ calls' = Append(calls, [fn |-> "_validate_primary_key", label |-> label,
                                      kind |-> e.kind])
           /\ \/ /\ e.kind = "ok"
                 /\ pc' = to
                 /\ UNCHANGED <<outcome, error, response>>
              \/ /\ e.kind # "ok"
                 /\ error' = e
                 /\ pc' = "done"
                 /\ outcome' = IF request.handler = "main" THEN "raised" ELSE "rejected"
                 /\ response' =
                        IF request.handler = "main" THEN response
                        ELSE jsonify_error(IF request.handler = "api_compare"
                                           THEN "primary_key_invalid" ELSE "",
                                           e, <<>>, <<>>)
    /\ UNCHANGED <<mode, df1, df2, key, meta, result, request, tmpfile>>

\* _validate_primary_key(df1, key, "file1")
ValidateLeft ==
    /\ pc = IF request.handler = "main" THEN "start" ELSE "checked"
    /\ Validate(df1, "file1", pc, "validated1")

\* _validate_primary_key(df2, key, "file2")
ValidateRight ==
    /\ pc = "validated1"
    /\ Validate(df2, "file2", pc, "validated2")

\* compare_excels(df1, df2, key), in /api/compare through
\* get_comparison_for_frontend, in main a second time when --json is given
KeyedDiff ==
    /\ pc = "validated2"
    /\ mode = "key"
    /\ calls' = Append(calls, [fn |-> "compare_excels", label |-> "", kind |-> "ok"])
    /\ meta' = compare_excels(df1, df2, key).meta
    /\ result' = IF request.handler = "api_compare" \/ request.json
                 THEN get_comparison_for_frontend(df1, df2, key)
                 ELSE result
    /\ IF request.handler = "api_compare"
       THEN /\ response' = [NoResponse EXCEPT !.status = 200, !.body = "json"]
            /\ outcome' = "ok"
            /\ pc' = "done"
       ELSE /\ pc' = "ready"
            /\ UNCHANGED <<outcome, response>>
    /\ UNCHANGED <<mode, df1, df2, key, error, request, tmpfile>>

\* compare_excels_by_position(df1, df2) of /api/export-excel, outside any try
PositionDiff ==
    /\ pc = "start"
    /\ mode = "position"
    /\ calls' = Append(calls, [fn |-> "compare_excels_by_position", label |-> "",
                               kind |-> IF insert_raises(df1, df2) THEN "raised" ELSE "ok"])
    /\ IF insert_raises(df1, df2)
       THEN /\ response' = server_error
            /\ outcome' = "raised"
            /\ pc' = "done"
            /\ UNCHANGED meta
       ELSE /\ meta' = compare_excels_by_position(df1, df2).meta
            /\ pc' = "ready"
            /\ UNCHANGED <<outcome, response>>
    /\ UNCHANGED <<mode, df1, df2, key, result, error, request, tmpfile>>

\* /api/export-cell-level-excel up to the frame to write: no rows is a 400,
\* and so is a body pd.DataFrame raises on, caught by except Exception
CellLevelRows ==
    /\ pc = "start"
    /\ mode = "cells"
    /\ IF request.rows = "rows"
       THEN /\ pc' = "ready"
            /\ UNCHANGED <<outcome, response>>
       ELSE /\ response' = jsonify_error("", NoError, <<>>, <<>>)
            /\ outcome' = "rejected"
            /\ pc' = "done"
    /\ UNCHANGED <<mode, df1, df2, key, meta, result, error, request, calls, tmpfile>>

\* fd, out_path = tempfile.mkstemp(suffix=".xlsx"); os.close(fd)
MakeTemp ==
    /\ pc = "ready"
    /\ request.handler \in {"api_export_excel", "api_export_cell_level_excel"}
    /\ tmpfile' = "exists"
    /\ pc' = "created"
    /\ UNCHANGED <<mode, df1, df2, key, outcome, meta, result, error>>
    /\ UNCHANGED <<request, calls, response>>

\* export_to_excel / export_to_excel_by_position / df.to_excel returns:
\* main is done, a view goes on to send the file
WriteWorkbook ==
    /\ \/ pc = "ready" /\ request.handler = "main"
       \/ pc = "created"
    /\ IF request.handler = "main"
       THEN pc' = "done" /\ outcome' = "ok"
       ELSE pc' = "written" /\ UNCHANGED outcome
    /\ UNCHANGED <<mode, df1, df2, key, meta, result, error>>
    /\ UNCHANGED reqvars

\* the same call raises (the writer fails): main and /api/export-excel let
\* the exception escape, /api/export-cell-level-excel answers 400; none of
\* them touches the file made by mkstemp
WriteWorkbookRaises ==
    /\ \/ pc = "ready" /\ request.handler = "main"
       \/ pc = "created"
    /\ pc' = "done"
    /\ outcome' = IF request.handler = "api_export_cell_level_excel"
                  THEN "rejected" ELSE "raised"
    /\ response' = IF request.handler = "api_export_cell_level_excel"
                   THEN jsonify_error("", NoError, <<>>, <<>>)
                   ELSE IF request.handler = "api_export_excel" THEN server_error
                   ELSE response
    /\ UNCHANGED <<mode, df1, df2, key, meta, result, error>>
    /\ UNCHANGED <<request, calls, tmpfile>>

\* _send_tempfile: cleanup is registered with after_this_request, then
\* send_file returns the response
SendTempfile ==
    /\ pc = "written"
    /\ response' = [NoResponse EXCEPT !.status = 200, !.body = "xlsx"]
    /\ outcome' = "ok"
    /\ pc' = "responding"
    /\ UNCHANGED <<mode, df1, df2, key, meta, result, error>>
    /\ UNCHANGED <<request, calls, tmpfile>>

\* _send_tempfile: cleanup is registered, then send_file raises
SendTempfileRaises ==
    /\ pc = "written"
    /\ outcome' = IF request.handler = "api_export_cell_level_excel"
                  THEN "rejected" ELSE "raised"
    /\ response' = IF request.handler = "api_export_cell_level_excel"
                   THEN jsonify_error("", NoError, <<>>, <<>>)
                   ELSE server_error
    /\ pc' = "responding"
    /\ UNCHANGED <<mode, df1, df2, key, meta, result, error>>
    /\ UNCHANGED <<request, calls, tmpfile>>

\* cleanup(response), run on the response: Path(path).unlink(missing_ok=True)
Cleanup ==
    /\ pc = "responding"
    /\ tmpfile' = "deleted"
    /\ pc' = "done"
    /\ UNCHANGED <<mode, df1, df2, key, outcome, meta, result, error>>
    /\ UNCHANGED <<request, calls, response>>

NextReq ==
    \/ CheckKeyPresent
    \/ CheckKeyMissing
    \/ ValidateLeft
    \/ ValidateRight
    \/ KeyedDiff
    \/ PositionDiff
    \/ CellLevelRows
    \/ MakeTemp
    \/ WriteWorkbook
    \/ WriteWorkbookRaises
    \/ SendTempfile
    \/ SendTempfileRaises
    \/ Cleanup

SpecReq == InitReq /\ [][NextReq]_vars

\* C15: no request of an export handler ends with the temporary workbook
\* file it created still existing, whichever way the request ends.
C15_TempfileDeleted == pc = "done" => tmpfile # "exists"

(***************************************************************************)
(* What the specification says of validation in a keyed request.           *)
(***************************************************************************)
\* the calls that started the keyed diff engine
EngineCalls == {n \in 1..Len(calls) : calls[n].fn = "compare_excels"}

\* before call n the validator was called on the table label and returned
ValidatedBefore(n, label) ==
    \E i \in 1..(n - 1) :
        calls[i] = [fn |-> "_validate_primary_key", label |-> label, kind |-> "ok"]

KeyIn(df) == key \in columns_set(df)

MissingKey(df) == KeyIn(df) /\ \E i \in 1..len(df) : at(df, i, key) = NA

DuplicateKey(df) ==
    KeyIn(df) /\ \E i, j \in 1..len(df) :
                     i # j /\ at(df, i, key) # NA /\ at(df, i, key) = at(df, j, key)

\* the request produced nothing: no diff, no result, no export
NothingProduced ==
    /\ EngineCalls = {}
    /\ result = NoResult
    /\ tmpfile = "none"
    /\ response.status # 200
    /\ outcome \in {"none", "raised", "rejected"}

ReportedError == IF request.handler = "main" THEN error ELSE response.error

\* the calls of the validator on the right table
RightCalls == {n \in 1..Len(calls) : calls[n].label = "file2"}

LeftInvalid == ~KeyIn(df1) \/ MissingKey(df1) \/ DuplicateKey(df1)

RightInvalid == ~KeyIn(df2) \/ MissingKey(df2) \/ DuplicateKey(df2)

\* the failure of the left table, by the validator's order of checks
LeftFailure ==
    IF ~KeyIn(df1) THEN "KeyNotFound"
    ELSE IF MissingKey(df1) THEN "KeyHasMissingValues"
    ELSE "KeyNotUnique"

\* the request reports the left table's failure and nothing of the right
OnlyLeftReported ==
    /\ ReportedError.kind = LeftFailure
    /\ ReportedError.label = "file1"
    /\ RightCalls = {}
    /\ response.columns_file2 = <<>>

\* the left table is validated before the right one
LeftBeforeRight == \A n \in RightCalls : ValidatedBefore(n, "file1")

\* C12 as amended: in keyed mode the validator is called on the left table
\* before the right one, and when it fails on the left table (in main for an
\* absent key, a missing key cell or a duplicate; in the two views for a
\* missing key cell or a duplicate) the request reports the left table's
\* failure alone and never validates the right table, invalid or not.  The
\* two views check that the key is a column of both tables before they
\* validate either: if it is not, /api/compare answers primary_key_missing,
\* naming file1, file2 or "either file" and listing the columns of both
\* tables, and /api/export-excel answers that the key is not in both files.
C12_LeftFirst ==
    mode = "key" =>
        /\ LeftBeforeRight
        /\ (/\ pc = "done"
            /\ LeftInvalid
            /\ request.handler = "main" \/ (KeyIn(df1) /\ KeyIn(df2))) => OnlyLeftReported
        /\ (/\ pc = "done"
            /\ request.handler # "main"
            /\ ~KeyIn(df1) \/ ~KeyIn(df2)) =>
               /\ calls = <<>>
               /\ response.status = 400
               /\ response.error.kind = "KeyNotFound"
               /\ IF request.handler = "api_compare"
                  THEN /\ response.code = "primary_key_missing"
                       /\ response.error.label =
                              IF ~KeyIn(df1) /\ ~KeyIn(df2) THEN "either file"
                              ELSE IF ~KeyIn(df1) THEN "file1" ELSE "file2"
                       /\ response.columns_file1 = df1.columns
                       /\ response.columns_file2 = df2.columns
                  ELSE response.error.label = "both files"

C12_Witness ==
    /\ pc = "done"
    /\ request.handler = "api_compare"
    /\ DuplicateKey(df1)
    /\ ~MissingKey(df1)
    /\ MissingKey(df2)
    /\ error.kind = "KeyNotUnique"
    /\ response.error.label = "file1"
    /\ response.code = "primary_key_invalid"
    /\ Len(calls) = 1

\* C12: in keyed mode the left table is validated before the right one, and
\* whenever the left table is invalid (key absent, missing key cells or
\* duplicate keys) the reported error describes only the left table's
\* failure and nothing of the right table is checked or reported.
C12_LeftFirstOnly ==
    mode = "key" =>
        /\ LeftBeforeRight
        /\ (pc = "done" /\ LeftInvalid) => OnlyLeftReported

====
